---- MODULE Spec2Model ----
(***************************************************************************)
(* ubergrid: exhaustive grid search with resumable per-model jobs.        *)
(*                                                                         *)
(* The model follows src/ubergrid/ubergrid_core.py: _main (the grid        *)
(* orchestrator), the joblib Parallel dispatch of _train_and_evaluate      *)
(* (the job runner) and the consolidation of the per-job result files      *)
(* into results.json.  The state is the output directory (model files,    *)
(* per-job result files, the aggregate file), the position of the          *)
(* orchestrator and of every job of the current run.                       *)
(***************************************************************************)
EXTENDS Integers, Sequences, FiniteSets, TLC

\* Bounds of the model.
MaxModels == 2      \* largest number of grid points of a run
MaxRuns == 2        \* number of _main invocations in one behaviour
MaxWorkers == 2     \* largest n_jobs
MaxMetrics == 2     \* longest list of metric names
MaxFolds == 3       \* largest number of cross validation folds
MaxRows == 4        \* largest number of rows of a dataset
MaxParams == 2      \* largest number of parameters of a grid

VARIABLES
    outDir,         \* os.path.exists(output_dir)
    dirOrder,       \* the order in which the file system lists the directory
    modelFile,      \* model_{id}.pkl: 0 when absent, else the run that dumped it
    resultFile,     \* results_{id}.json: [exists, lines]
    aggregate,      \* results.json: [exists, lines]
    run,            \* number of _main invocations started so far
    ctx,            \* grid_search_context (with the grid and n_jobs) of the run
    mainPc,         \* position of _main: idle, dry_run, parallel, cat, rm
    mainResult,     \* how the last invocation ended (running: it has not)
    jobPc,          \* position of every _train_and_evaluate call of the run
    results_glob,   \* _main's local results_glob
    newSincePass,   \* a job wrote its result record since the last consolidation
    startComplete,  \* every grid point had a complete result file at dispatch
    startLines,     \* what those files held, in listing order
    dirGrid,        \* the grid sizes of the runs that dispatched so far
    inputDefects,   \* what was wrong with the inputs of the last invocation
    fitted,         \* the jobs of the run whose estimator.fit was called
    logged,         \* the model ids the last _dry_run logged, in order
    omitted,        \* the optional fields the last search file left out
    lastFit,        \* what the estimator of every job was last fitted on
    call,           \* the function called on its own, with its arguments
    ret             \* what that call returned or raised

vars == <<outDir, dirOrder, modelFile, resultFile, aggregate, run, ctx, mainPc,
          mainResult, jobPc, results_glob, newSincePass, startComplete, startLines,
          dirGrid, inputDefects, fitted, logged, omitted, lastFit, call, ret>>

Ids == 0 .. (MaxModels - 1)

\* ------------------------------------------------------------------ files

Absent == [exists |-> FALSE, lines |-> <<>>]

\* open(path, 'w'): the file exists and holds nothing yet.
Truncated == [exists |-> TRUE, lines |-> <<>>]

\* The single JSON line a job writes.  The timing fields of the record differ
\* from one training to the next; the run that trained the model stands for them.
ResultRecord(id, r) == [model_id |-> id, trained_in |-> r]

Range(s) == { s[i] : i \in DOMAIN s }

\* The listing orders the model tries: by ascending and by descending id.  The
\* order of a directory does not change while the program runs.
Orders ==
    { [i \in 1 .. MaxModels |-> i - 1], [i \in 1 .. MaxModels |-> MaxModels - i] }

\* glob("{}/results_*.json"): the per-job result files, in listing order.
Glob(files, order) == SelectSeq(order, LAMBDA id : files[id].exists)

\* cat f1 f2 ...: the lines of the named files, one file after the other.  With
\* no operand cat copies its standard input, which is taken to be at end of file.
RECURSIVE Cat(_, _)
Cat(names, files) ==
    IF names = <<>> THEN <<>>
    ELSE files[Head(names)].lines \o Cat(Tail(names), files)

\* ----------------------------------------------------------------- inputs

ValidationFiles == {"None", "", "path"}

\* `if validation_file` in _main.
Truthy(v) == v \notin {"None", ""}

ArgSpace ==
    [ search_exists : BOOLEAN, training_exists : BOOLEAN,
      validation_file : ValidationFiles, validation_exists : BOOLEAN,
      target_in_training : BOOLEAN, target_in_validation : BOOLEAN,
      same_columns : BOOLEAN, has_estimator : BOOLEAN, has_param_grid : BOOLEAN,
      has_scoring : BOOLEAN, dry_run : BOOLEAN, grid : 0 .. MaxModels,
      n_jobs : 1 .. MaxWorkers, cross_validation : BOOLEAN,
      metrics_supported : BOOLEAN, has_fit_params : BOOLEAN ]

Defects(a) ==
    { d \in {"search_file", "training_file", "validation_file", "target_training",
             "target_validation", "columns", "estimator", "param_grid", "scoring",
             "metrics"} :
        \/ d = "search_file" /\ ~a.search_exists
        \/ d = "training_file" /\ ~a.training_exists
        \/ d = "validation_file" /\ ~a.validation_exists
        \/ d = "target_training" /\ ~a.target_in_training
        \/ d = "target_validation" /\ ~a.target_in_validation
        \/ d = "columns" /\ ~a.same_columns
        \/ d = "estimator" /\ ~a.has_estimator
        \/ d = "param_grid" /\ ~a.has_param_grid
        \/ d = "scoring" /\ ~a.has_scoring
        \/ d = "metrics" /\ ~a.metrics_supported }

\* The optional fields the search file leaves out.
Omitted(a) ==
    { f \in {"fit_params", "scoring"} :
        \/ f = "fit_params" /\ ~a.has_fit_params
        \/ f = "scoring" /\ ~a.has_scoring }

\* An invocation with one grid point, one worker and no cross validation.
Plain(a) == a.grid = 1 /\ a.n_jobs = 1 /\ ~a.cross_validation

\* The invocations the model tries: at most one thing wrong with the inputs, and
\* the fields about the validation file only vary when one is given.  An
\* invocation with a defect, with validation_file = "", with dry_run or with no
\* fit_params is a plain one (a dry run: on any grid; one with an unsupported
\* metric: with or without cross validation), and no invocation asks for more
\* workers than it has grid points, which the pool would leave without work.
Inputs ==
    { a \in ArgSpace :
        /\ Cardinality(Defects(a)) <= 1
        /\ ~Truthy(a.validation_file) =>
              a.validation_exists /\ a.target_in_validation /\ a.same_columns
        /\ Defects(a) # {} => ~a.dry_run /\ a.grid = 1 /\ a.n_jobs = 1
        /\ Defects(a) \ {"metrics"} # {} => Plain(a)
        /\ a.validation_file = "" => ~a.dry_run /\ Plain(a)
        /\ a.dry_run => a.n_jobs = 1 /\ ~a.cross_validation
                           /\ a.validation_file = "None"
        /\ ~a.has_fit_params =>
              Plain(a) /\ ~a.dry_run /\ a.validation_file = "None"
                       /\ Defects(a) \subseteq {"scoring"}
        /\ a.n_jobs > 1 => a.n_jobs <= a.grid }

\* The grid search context _main builds from its arguments, with the grid and
\* the number of workers it dispatches with.
Context(a) ==
    [ grid |-> a.grid, n_jobs |-> a.n_jobs, cross_validation |-> a.cross_validation,
      validation_file |-> a.validation_file,
      metrics_supported |-> a.metrics_supported,
      \* search_params['fit_params'] if 'fit_params' in search_params.keys() else {}
      fit_params |-> IF a.has_fit_params THEN "given" ELSE "{}" ]

\* Outside a run there is no context.
NoContext ==
    [ grid |-> 0, n_jobs |-> 0, cross_validation |-> FALSE, validation_file |-> "None",
      metrics_supported |-> TRUE, fit_params |-> "{}" ]

\* Preflight without its check of the target column of the training data.
Preflight_NoTargetCheck(a, dirExists) ==
    IF ~a.search_exists THEN "ValueError_search_file"
    ELSE IF ~a.training_exists THEN "ValueError_training_file"
    ELSE IF Truthy(a.validation_file) /\ ~a.validation_exists
        THEN "ValueError_validation_file"
    ELSE IF ~dirExists THEN "IndexError_format"
    ELSE IF Truthy(a.validation_file) /\ ~a.target_in_validation
        THEN "ValueError_target_validation"
    ELSE IF Truthy(a.validation_file) /\ ~a.same_columns THEN "ValueError_columns"
    ELSE IF ~a.has_estimator THEN "ValueError_estimator"
    ELSE IF ~a.has_param_grid THEN "ValueError_param_grid"
    ELSE IF ~a.has_scoring THEN "KeyError_scoring"
    ELSE "ok"

\* The checks _main makes before it dispatches, in the order it makes them: "ok",
\* or the error raised.
Preflight(a, dirExists) ==
    IF ~a.search_exists THEN "ValueError_search_file"
    ELSE IF ~a.training_exists THEN "ValueError_training_file"
    ELSE IF Truthy(a.validation_file) /\ ~a.validation_exists
        THEN "ValueError_validation_file"
    \* logger.info("{} does not exist. Creating {}.".format(output_dir)) has two
    \* fields and one argument: str.format raises before os.mkdir is reached.
    ELSE IF ~dirExists THEN "IndexError_format"
    ELSE IF ~a.target_in_training THEN "ValueError_target_training"
    ELSE IF Truthy(a.validation_file) /\ ~a.target_in_validation
        THEN "ValueError_target_validation"
    ELSE IF Truthy(a.validation_file) /\ ~a.same_columns THEN "ValueError_columns"
    ELSE IF ~a.has_estimator THEN "ValueError_estimator"
    ELSE IF ~a.has_param_grid THEN "ValueError_param_grid"
    \* "metrics": search_params['scoring']
    ELSE IF ~a.has_scoring THEN "KeyError_scoring"
    ELSE "ok"

\* The grid points of the invocation: enumerate(ParameterGrid(param_grid)).
Grid(a) == 0 .. (a.grid - 1)

\* -------------------------------------------------------------- functions

\* No function has been called on its own.
NoCall == [fn |-> "none"]

AVAILABLE_METRICS ==
    {"accuracy", "f1", "recall", "precision", "log_loss", "roc_auc",
     "average_precision", "f1_micro", "f1_macro", "precision_micro",
     "precision_macro", "recall_micro", "recall_macro", "neg_mean_absolute_error",
     "neg_mean_squared_error", "neg_median_absolute_error", "r2"}

\* The metric names the model asks for: two supported ones and two others.
MetricNames == {"accuracy", "f1", "bogus", "nope"}

\* The lists of at most n elements of S.
RECURSIVE SeqsUpTo(_, _)
SeqsUpTo(S, n) ==
    IF n = 0 THEN {<<>>}
    ELSE LET shorter == SeqsUpTo(S, n - 1)
         IN  shorter \cup { Append(s, x) : s \in { q \in shorter : Len(q) = n - 1 }, x \in S }

MetricLists == SeqsUpTo(MetricNames, MaxMetrics)

\* A dataset: its number of rows, the score every scorer gives the estimator on
\* it, and the time one scoring call takes.
Datasets == [rows : 1 .. MaxRows, score : 0 .. 1, time : {1}]

RECURSIVE Sum(_)
Sum(x) == IF x = <<>> THEN 0 ELSE Head(x) + Sum(Tail(x))

\* sum(x) / len(x), as the fraction it is.
Mean(x) == [num |-> Sum(x), den |-> Len(x)]

\* {**a, **b}: the entries of b, and those of a under the other keys.
Update(a, b) ==
    [k \in DOMAIN a \cup DOMAIN b |-> IF k \in DOMAIN b THEN b[k] ELSE a[k]]

\* What a call of _evaluate_model gives: the exception raised (none: it returned),
\* the names the exception carries, the metrics scored, in the order of the
\* scoring calls, and the mapping returned.  The key prefix + "_" + name is the
\* pair <<prefix, name>>.
Outcome(raised, names, scored, results) ==
    [raised |-> raised, names |-> names, scored |-> scored, results |-> results]

\* The loop of _evaluate_model over metrics whose names are all supported, and
\* the mapping it returns.
Scores(metrics, prefix, X) ==
    LET predict_times == [i \in 1 .. Len(metrics) |-> X.time]
    IN  \* sum(predict_times) / len(predict_times) with no metric
        IF Len(predict_times) = 0 THEN Outcome("ZeroDivisionError", {}, metrics, <<>>)
        ELSE Outcome("none", {}, metrics,
                [k \in { <<prefix, m>> : m \in Range(metrics) }
                        \cup {<<prefix, "total_prediction_time">>,
                              <<prefix, "total_prediction_records">>} |->
                    IF k[2] = "total_prediction_time"
                        THEN Sum(predict_times) \div Len(predict_times)
                    ELSE IF k[2] = "total_prediction_records" THEN X.rows
                    ELSE X.score])

\* An evaluator that checks each name when it comes to score it.
evaluate_model_CheckInLoop(metrics, prefix, X) ==
    LET bad == { i \in 1 .. Len(metrics) : metrics[i] \notin AVAILABLE_METRICS }
        firstBad == CHOOSE i \in bad : \A j \in bad : i <= j
    IN  IF bad = {} THEN Scores(metrics, prefix, X)
        ELSE Outcome("ValueError", {metrics[firstBad]},
                     SubSeq(metrics, 1, firstBad - 1), <<>>)

\* _evaluate_model(estimator, X, y, grid_search_context, prefix)
evaluate_model(metrics, prefix, X) ==
    LET unavailable == Range(metrics) \ AVAILABLE_METRICS
    IN  IF unavailable # {} THEN Outcome("ValueError", unavailable, <<>>, <<>>)
        ELSE Scores(metrics, prefix, X)

\* KFold(n_splits).split: the size of the i-th test fold of n rows.
FoldSize(n, n_splits, i) == (n \div n_splits) + (IF i <= n % n_splits THEN 1 ELSE 0)

\* The training set of a cross validation: its rows, and for every fold the score
\* the estimator fitted on that fold gets.
TrainingSets ==
    UNION { [rows : n_splits .. MaxRows, folds : [1 .. n_splits -> 0 .. 1]] :
                n_splits \in 2 .. MaxFolds }

\* One pass of the loop of _cross_validate: the mapping appended for fold i, or
\* the outcome of the evaluation that raised.
Fold(metrics, T, i) ==
    LET n_splits == Len(T.folds)
        size == FoldSize(T.rows, n_splits, i)
        cv_training_results ==
            evaluate_model(metrics, "cross_validation_training",
                           [rows |-> T.rows - size, score |-> T.folds[i], time |-> 1])
        cv_validation_results ==
            evaluate_model(metrics, "cross_validation",
                           [rows |-> size, score |-> T.folds[i], time |-> 1])
    IN  IF cv_training_results.raised # "none" THEN cv_training_results
        ELSE IF cv_validation_results.raised # "none" THEN cv_validation_results
        ELSE Outcome("none", {}, metrics,
                Update(Update([k \in {<<"cross_validation_training", "time_total">>}
                                  |-> 1],
                              cv_training_results.results),
                       cv_validation_results.results))

\* merge_with(identity, *dicts): under every key the values of the mappings that
\* have it, in the order of the mappings.
merge_with(dicts) ==
    [k \in UNION { DOMAIN dicts[i] : i \in DOMAIN dicts } |->
        LET having == SelectSeq([i \in DOMAIN dicts |-> i],
                                LAMBDA i : k \in DOMAIN dicts[i])
        IN  [j \in 1 .. Len(having) |-> dicts[having[j]][k]]]

\* _cross_validate(estimator, model_id, grid_search_context).  The key f + "_all"
\* is f with "_all" appended.
cross_validate(metrics, T) ==
    LET n_splits == Len(T.folds)
        cv_results_merged ==
            merge_with([i \in 1 .. n_splits |-> Fold(metrics, T, i).results])
    IN  IF Fold(metrics, T, 1).raised # "none" THEN Fold(metrics, T, 1)
        ELSE Outcome("none", {}, metrics,
                Update([k \in { Append(f, "_all") : f \in DOMAIN cv_results_merged }
                           |-> cv_results_merged[SubSeq(k, 1, 2)]],
                       [f \in DOMAIN cv_results_merged |->
                           Mean(cv_results_merged[f])]))

\* The key sets of the mappings merged into a result record: a key of the
\* provenance fields, a key of the training mapping, and validation_file.
MergeKeys == {"model_id", "training_accuracy", "validation_file"}

\* A mapping with these keys; every value tells the mapping it comes from.
Mapping(keys, origin) == [k \in keys |-> origin]

\* The provenance fields of a result record.
Provenance ==
    Mapping({"training_file", "target", "model_file", "model_id"}, "provenance")

\* A result record in which the parameter combination is merged first.
results_ParamsFirst(cv_results, training_results, validation_results, params, validation_file) ==
    LET merged == Update(Update(Update(Update(params, Provenance), cv_results),
                                training_results), validation_results)
    IN  IF Truthy(validation_file)
        THEN Update(merged, Mapping({"validation_file"}, validation_file))
        ELSE merged

\* results = {provenance, **cv_results, **training_results, **validation_results,
\* **params}, and results["validation_file"] when validation_file is given.
results(cv_results, training_results, validation_results, params, validation_file) ==
    LET merged == Update(Update(Update(Update(Provenance, cv_results),
                                       training_results), validation_results),
                         params)
    IN  IF Truthy(validation_file)
        THEN Update(merged, Mapping({"validation_file"}, validation_file))
        ELSE merged

\* The parameter names of the model, in alphabetical order.
ParamNames == <<"C", "m", "n">>

\* The place of a name in the order of strings.
Rank(name) == CHOOSE i \in DOMAIN ParamNames : ParamNames[i] = name

\* The value lists of a parameter.
ValueLists == { v \in SeqsUpTo({1, 2}, 2) : Cardinality(Range(v)) = Len(v) }

\* param_grid as the search file declares it: (name, values) in the order of the
\* file, no name twice.
ParamGrids ==
    { g \in SeqsUpTo({ [name |-> n, values |-> v] :
                          n \in Range(ParamNames), v \in ValueLists }, MaxParams) :
        \A i, j \in DOMAIN g : g[i].name = g[j].name => i = j }

\* sorted(p.items()): the items by name.
Sorted(items) ==
    [i \in DOMAIN items |->
        CHOOSE x \in Range(items) :
            Cardinality({ y \in Range(items) : Rank(y.name) < Rank(x.name) }) = i - 1]

\* itertools.product(*values), each combination the set of its (name, value)
\* pairs: the value of the last item changes fastest.
RECURSIVE Product(_)
Product(items) ==
    IF items = <<>> THEN <<{}>>
    ELSE LET h == Head(items)
             rest == Product(Tail(items))
             n == Len(rest)
         IN  [i \in 1 .. (Len(h.values) * n) |->
                 {<<h.name, h.values[((i - 1) \div n) + 1]>>}
                     \cup rest[((i - 1) % n) + 1]]

\* ParameterGrid(param_grid).__iter__ of scikit-learn, which sorts the items of
\* the grid by name before it takes their product; enumerate gives the i-th
\* combination the model id i - 1.
ParameterGrid(param_grid) == Product(Sorted(param_grid))

\* ------------------------------------------------------------------- jobs

InFlight == {"set_params", "cross_validate", "train", "validate", "dump", "open",
             "write"}

Running == { id \in Ids : jobPc[id] \in InFlight }

\* No estimator of the run has been fitted (joblib.load gives every call the
\* untrained estimator of the search file).
NotFitted == [id \in Ids |-> "none"]

\* No call of _train_and_evaluate exists (outside a run), or none has started.
NoJobs == [id \in Ids |-> "pending"]

\* Parallel(n_jobs=n_jobs)(...): calls are handed out in grid order to at most
\* n_jobs workers; with one worker the calls run in the caller, so that a call
\* that raised ends the loop at once.
CanDispatch(id) ==
    /\ mainPc = "parallel"
    /\ id \in Grid(ctx)
    /\ jobPc[id] = "pending"
    /\ \A j \in Grid(ctx) : j < id => jobPc[j] # "pending"
    /\ Cardinality(Running) < ctx.n_jobs
    /\ ctx.n_jobs = 1 => \A j \in Ids : jobPc[j] # "raised"

\* A pool that returns once every call was handed to a worker.
PoolDrained_Dispatched == \A id \in Grid(ctx) : jobPc[id] # "pending"

\* Parallel returns once every call has returned.
PoolDrained == \A id \in Grid(ctx) : jobPc[id] \in {"returned", "skipped"}

\* A job runner that never looks for an earlier result.
AlreadyDone_Never(id) == FALSE

\* `if os.path.exists(results_file): return`
AlreadyDone(id) == resultFile[id].exists

\* Every grid point has a result file of one line.
AllComplete(a) ==
    \A id \in Grid(a) : resultFile[id].exists /\ Len(resultFile[id].lines) = 1

\* The grid sizes of the runs that dispatched: none yet, one size, or several
\* (then: all of them).
GridsWith(seen, g) ==
    IF seen \subseteq {g} THEN {g} ELSE 0 .. MaxModels

Init ==
    /\ outDir \in BOOLEAN
    /\ dirOrder \in Orders
    /\ modelFile = [id \in Ids |-> 0]
    /\ resultFile = [id \in Ids |-> Absent]
    /\ aggregate = Absent
    /\ run = 0
    /\ ctx = NoContext
    /\ mainPc = "idle"
    /\ mainResult = "none"
    /\ jobPc = NoJobs
    /\ results_glob = <<>>
    /\ newSincePass = FALSE
    /\ startComplete = FALSE
    /\ startLines = <<>>
    /\ dirGrid = {}
    /\ inputDefects = {}
    /\ fitted = {}
    /\ logged = <<>>
    /\ omitted = {}
    /\ lastFit = NotFitted
    /\ call = NoCall
    /\ ret = <<>>

\* _main up to the dispatch: validation of the inputs, the context, the choice
\* of the dry run.  os.mkdir is only reached when the directory exists already
\* (see Preflight).
MainStart(a) ==
    /\ mainPc = "idle"
    /\ run < MaxRuns
    /\ run' = run + 1
    /\ inputDefects' = Defects(a)
    /\ omitted' = Omitted(a)
    /\ logged' = <<>>
    /\ LET r == Preflight(a, outDir) IN
       IF r # "ok" THEN
            /\ mainResult' = r
            /\ UNCHANGED <<mainPc, ctx, startComplete, startLines, dirGrid>>
       ELSE IF a.dry_run THEN
            /\ mainPc' = "dry_run"
            /\ mainResult' = "running"
            /\ ctx' = Context(a)
            /\ UNCHANGED <<startComplete, startLines, dirGrid>>
       ELSE
            /\ mainPc' = "parallel"
            /\ mainResult' = "running"
            /\ ctx' = Context(a)
            /\ startComplete' = AllComplete(a)
            /\ startLines' = IF AllComplete(a)
                             THEN Cat(Glob(resultFile, dirOrder), resultFile)
                             ELSE <<>>
            /\ dirGrid' = GridsWith(dirGrid, a.grid)
    /\ UNCHANGED <<outDir, dirOrder, modelFile, resultFile, aggregate, jobPc,
                   results_glob, newSincePass, fitted, lastFit,
                   call, ret>>

\* A dry run that goes on to the dispatch after it has logged.
DryRun_ThenDispatch ==
    /\ mainPc = "dry_run"
    /\ logged' = [i \in 1 .. ctx.grid |-> i - 1]
    /\ mainPc' = "parallel"
    /\ UNCHANGED <<outDir, dirOrder, modelFile, resultFile, aggregate, run, ctx,
                   mainResult, jobPc, results_glob, newSincePass, startComplete,
                   startLines, dirGrid, inputDefects, fitted, omitted, lastFit,
                   call, ret>>

\* _dry_run(grid, grid_search_context) logs one entry for every
\* (model_id, params) of enumerate(grid), and _main returns.
DryRun ==
    /\ mainPc = "dry_run"
    /\ logged' = [i \in 1 .. ctx.grid |-> i - 1]
    /\ mainPc' = "idle"
    /\ mainResult' = "dry_run"
    /\ ctx' = NoContext
    /\ UNCHANGED <<outDir, dirOrder, modelFile, resultFile, aggregate, run, jobPc,
                   results_glob, newSincePass, startComplete, startLines, dirGrid,
                   inputDefects, fitted, omitted, lastFit,
                   call, ret>>

\* _train_and_evaluate up to the check for an earlier result.
JobEnter(id) ==
    /\ CanDispatch(id)
    /\ jobPc' = [jobPc EXCEPT ![id] =
                    IF AlreadyDone(id) THEN "skipped" ELSE "set_params"]
    /\ UNCHANGED <<outDir, dirOrder, modelFile, resultFile, aggregate, run, ctx, mainPc,
                   mainResult, results_glob, newSincePass, startComplete, startLines,
                   dirGrid, inputDefects, fitted, logged, omitted, lastFit, call, ret>>

\* estimator.set_params(**params)
SetParams(id) ==
    /\ jobPc[id] = "set_params"
    /\ jobPc' = [jobPc EXCEPT ![id] =
                    IF ctx.cross_validation THEN "cross_validate" ELSE "train"]
    /\ UNCHANGED <<outDir, dirOrder, modelFile, resultFile, aggregate, run, ctx, mainPc,
                   mainResult, results_glob, newSincePass, startComplete, startLines,
                   dirGrid, inputDefects, fitted, logged, omitted, lastFit, call, ret>>

\* _cross_validate(estimator, model_id, grid_search_context): every fold fits
\* the estimator and then calls _evaluate_model, which is where the metric names
\* are checked, so that with an unsupported name the first fold raises after
\* its fit.
CrossValidate(id) ==
    /\ jobPc[id] = "cross_validate"
    /\ fitted' = fitted \cup {id}
    /\ lastFit' = [lastFit EXCEPT ![id] = "fold"]
    /\ jobPc' = [jobPc EXCEPT ![id] =
                    IF ctx.metrics_supported THEN "train" ELSE "raised"]
    /\ UNCHANGED <<outDir, dirOrder, modelFile, resultFile, aggregate, run, ctx, mainPc,
                   mainResult, results_glob, newSincePass, startComplete, startLines,
                   dirGrid, inputDefects, logged, omitted, call, ret>>

\* A trainer that removes the validation file from the context it was given.
Train_PopsValidation(id) ==
    /\ jobPc[id] = "train"
    /\ fitted' = fitted \cup {id}
    /\ lastFit' = [lastFit EXCEPT ![id] = "full"]
    /\ ctx' = [ctx EXCEPT !.validation_file = "None"]
    /\ jobPc' = [jobPc EXCEPT ![id] =
                    IF ~ctx.metrics_supported THEN "raised"
                    ELSE IF ctx.validation_file # "None" THEN "validate"
                    ELSE "dump"]
    /\ UNCHANGED <<outDir, dirOrder, modelFile, resultFile, aggregate, run, mainPc,
                   mainResult, results_glob, newSincePass, startComplete, startLines,
                   dirGrid, inputDefects, logged, omitted, call, ret>>

\* _train_model(estimator, grid_search_context): estimator.fit, then
\* _evaluate_model on the training set, which raises on an unsupported name.
Train(id) ==
    /\ jobPc[id] = "train"
    /\ fitted' = fitted \cup {id}
    /\ lastFit' = [lastFit EXCEPT ![id] = "full"]
    /\ jobPc' = [jobPc EXCEPT ![id] =
                    IF ~ctx.metrics_supported THEN "raised"
                    ELSE IF ctx.validation_file # "None" THEN "validate"
                    ELSE "dump"]
    /\ UNCHANGED <<outDir, dirOrder, modelFile, resultFile, aggregate, run, ctx, mainPc,
                   mainResult, results_glob, newSincePass, startComplete, startLines,
                   dirGrid, inputDefects, logged, omitted, call, ret>>

\* _evaluate_model on the validation split.  With validation_file = "" the split
\* is None and the scoring raises: the step only succeeds with a real file.
Validate(id) ==
    /\ jobPc[id] = "validate"
    /\ Truthy(ctx.validation_file)
    /\ jobPc' = [jobPc EXCEPT ![id] = "dump"]
    /\ UNCHANGED <<outDir, dirOrder, modelFile, resultFile, aggregate, run, ctx, mainPc,
                   mainResult, results_glob, newSincePass, startComplete, startLines,
                   dirGrid, inputDefects, fitted, logged, omitted, lastFit, call, ret>>

\* A job runner that goes on to the result file without having dumped the model.
Dump_NotWritten(id) ==
    /\ jobPc[id] = "dump"
    /\ jobPc' = [jobPc EXCEPT ![id] = "open"]
    /\ UNCHANGED <<outDir, dirOrder, modelFile, resultFile, aggregate, run, ctx, mainPc,
                   mainResult, results_glob, newSincePass, startComplete, startLines,
                   dirGrid, inputDefects, fitted, logged, omitted, lastFit, call, ret>>

\* joblib.dump(estimator, model_file)
Dump(id) ==
    /\ jobPc[id] = "dump"
    /\ modelFile' = [modelFile EXCEPT ![id] = run]
    /\ jobPc' = [jobPc EXCEPT ![id] = "open"]
    /\ UNCHANGED <<outDir, dirOrder, resultFile, aggregate, run, ctx, mainPc,
                   mainResult, results_glob, newSincePass, startComplete, startLines,
                   dirGrid, inputDefects, fitted, logged, omitted, lastFit, call, ret>>

\* A job runner whose result file is not named after its model id.
OpenResults_SharedPath(id) ==
    /\ jobPc[id] = "open"
    /\ resultFile' = [resultFile EXCEPT ![0] = Truncated]
    /\ jobPc' = [jobPc EXCEPT ![id] = "write"]
    /\ UNCHANGED <<outDir, dirOrder, modelFile, aggregate, run, ctx, mainPc,
                   mainResult, results_glob, newSincePass, startComplete, startLines,
                   dirGrid, inputDefects, fitted, logged, omitted, lastFit, call, ret>>

\* open(results_file, 'w')
OpenResults(id) ==
    /\ jobPc[id] = "open"
    /\ resultFile' = [resultFile EXCEPT ![id] = Truncated]
    /\ jobPc' = [jobPc EXCEPT ![id] = "write"]
    /\ UNCHANGED <<outDir, dirOrder, modelFile, aggregate, run, ctx, mainPc,
                   mainResult, results_glob, newSincePass, startComplete, startLines,
                   dirGrid, inputDefects, fitted, logged, omitted, lastFit, call, ret>>

\* results_out.write(json.dumps(results) + "\n"), and the file is closed.
WriteResults(id) ==
    /\ jobPc[id] = "write"
    /\ resultFile' = [resultFile EXCEPT ![id] =
                         [exists |-> TRUE, lines |-> <<ResultRecord(id, run)>>]]
    /\ jobPc' = [jobPc EXCEPT ![id] = "returned"]
    /\ newSincePass' = TRUE
    /\ UNCHANGED <<outDir, dirOrder, modelFile, aggregate, run, ctx, mainPc,
                   mainResult, results_glob, startComplete, startLines,
                   dirGrid, inputDefects, fitted, logged, omitted, lastFit, call, ret>>

\* The statement the call is at raises: nothing in _train_and_evaluate catches it.
JobRaise(id) ==
    /\ jobPc[id] \in InFlight
    /\ jobPc' = [jobPc EXCEPT ![id] = "raised"]
    /\ UNCHANGED <<outDir, dirOrder, modelFile, resultFile, aggregate, run, ctx, mainPc,
                   mainResult, results_glob, newSincePass, startComplete, startLines,
                   dirGrid, inputDefects, fitted, logged, omitted, lastFit, call, ret>>

\* Parallel re-raises a call's exception in _main: the pool is ended, the calls
\* still in flight with it, and _main ends without consolidating.
MainRaise ==
    /\ mainPc = "parallel"
    /\ \E id \in Ids : jobPc[id] = "raised"
    /\ mainPc' = "idle"
    /\ mainResult' = "JobFailure"
    /\ jobPc' = NoJobs
    /\ ctx' = NoContext
    /\ fitted' = {}
    /\ lastFit' = NotFitted
    /\ startComplete' = FALSE
    /\ startLines' = <<>>
    /\ UNCHANGED <<outDir, dirOrder, modelFile, resultFile, aggregate, run,
                   results_glob, newSincePass, dirGrid, inputDefects, logged,
                   omitted, call, ret>>

\* results_glob = glob("{}/results_*.json".format(output_dir))
MainGlob ==
    /\ mainPc = "parallel"
    /\ PoolDrained
    /\ results_glob' = Glob(resultFile, dirOrder)
    /\ mainPc' = "cat"
    /\ UNCHANGED <<outDir, dirOrder, modelFile, resultFile, aggregate, run, ctx,
                   mainResult, jobPc, newSincePass, startComplete, startLines,
                   dirGrid, inputDefects, fitted, logged, omitted, lastFit, call, ret>>

\* A consolidation that opens results.json for appending.
MainCat_Append ==
    /\ mainPc = "cat"
    /\ aggregate' = [exists |-> TRUE,
                     lines |-> aggregate.lines \o Cat(results_glob, resultFile)]
    /\ newSincePass' = FALSE
    /\ mainPc' = "rm"
    /\ UNCHANGED <<outDir, dirOrder, modelFile, resultFile, run, ctx, mainResult,
                   jobPc, results_glob, startComplete, startLines,
                   dirGrid, inputDefects, fitted, logged, omitted, lastFit, call, ret>>

\* open(results.json, 'w') and cat of the per-job files into it.
MainCat ==
    /\ mainPc = "cat"
    /\ aggregate' = [exists |-> TRUE, lines |-> Cat(results_glob, resultFile)]
    /\ newSincePass' = FALSE
    /\ mainPc' = "rm"
    /\ UNCHANGED <<outDir, dirOrder, modelFile, resultFile, run, ctx, mainResult,
                   jobPc, results_glob, startComplete, startLines,
                   dirGrid, inputDefects, fitted, logged, omitted, lastFit, call, ret>>

\* rm of the per-job files, and _main returns.
MainRm ==
    /\ mainPc = "rm"
    /\ resultFile' = [id \in Ids |->
                         IF id \in Range(results_glob) THEN Absent
                         ELSE resultFile[id]]
    /\ mainPc' = "idle"
    /\ mainResult' = "ok"
    /\ jobPc' = NoJobs
    /\ ctx' = NoContext
    /\ fitted' = {}
    /\ lastFit' = NotFitted
    /\ results_glob' = <<>>
    /\ startComplete' = FALSE
    /\ startLines' = <<>>
    /\ UNCHANGED <<outDir, dirOrder, modelFile, aggregate, run, newSincePass,
                   dirGrid, inputDefects, logged, omitted, call, ret>>

\* The process is killed (or the machine stops) anywhere inside a run.
Crash ==
    /\ mainPc # "idle"
    /\ mainPc' = "idle"
    /\ mainResult' = "crashed"
    /\ jobPc' = NoJobs
    /\ ctx' = NoContext
    /\ fitted' = {}
    /\ lastFit' = NotFitted
    /\ results_glob' = <<>>
    /\ startComplete' = FALSE
    /\ startLines' = <<>>
    /\ UNCHANGED <<outDir, dirOrder, modelFile, resultFile, aggregate, run,
                   newSincePass, dirGrid, inputDefects, logged, omitted, call, ret>>

Next ==
    \/ \E a \in Inputs : MainStart(a)
    \/ \E id \in Ids : JobEnter(id)
    \/ \E id \in Ids : SetParams(id)
    \/ \E id \in Ids : CrossValidate(id)
    \/ \E id \in Ids : Train(id)
    \/ \E id \in Ids : Validate(id)
    \/ \E id \in Ids : Dump(id)
    \/ \E id \in Ids : OpenResults(id)
    \/ \E id \in Ids : WriteResults(id)
    \/ \E id \in Ids : JobRaise(id)
    \/ DryRun
    \/ MainRaise
    \/ MainGlob
    \/ MainCat
    \/ MainRm
    \/ Crash

Spec == Init /\ [][Next]_vars

\* ------------------------------------------------- functions on their own

\* The variables of the grid search proper.
program == <<outDir, dirOrder, modelFile, resultFile, aggregate, run, ctx, mainPc,
             mainResult, jobPc, results_glob, newSincePass, startComplete,
             startLines, dirGrid, inputDefects, fitted, logged, omitted, lastFit>>

\* _evaluate_model is called.
CallEvaluate(metrics, prefix, X) ==
    /\ call = NoCall
    /\ call' = [fn |-> "_evaluate_model", metrics |-> metrics, prefix |-> prefix,
                X |-> X]
    /\ ret' = evaluate_model(metrics, prefix, X)
    /\ UNCHANGED program

\* _cross_validate is called.
CallCrossValidate(metrics, T) ==
    /\ call = NoCall
    /\ call' = [fn |-> "_cross_validate", metrics |-> metrics, X_train |-> T]
    /\ ret' = cross_validate(metrics, T)
    /\ UNCHANGED program

\* _train_and_evaluate builds the result record of a job.  Without a validation
\* file the validation mapping is empty.
CallResults(cv_keys, training_keys, validation_keys, params_keys, validation_file) ==
    /\ call = NoCall
    /\ validation_file = "None" => validation_keys = {}
    /\ call' = [fn |-> "results",
                cv_results |-> Mapping(cv_keys, "cv_results"),
                training_results |-> Mapping(training_keys, "training_results"),
                validation_results |-> Mapping(validation_keys, "validation_results"),
                params |-> Mapping(params_keys, "params"),
                validation_file |-> validation_file]
    /\ ret' = results(Mapping(cv_keys, "cv_results"),
                      Mapping(training_keys, "training_results"),
                      Mapping(validation_keys, "validation_results"),
                      Mapping(params_keys, "params"), validation_file)
    /\ UNCHANGED program

\* _main enumerates the grid of the search file.
CallParameterGrid(param_grid) ==
    /\ call = NoCall
    /\ ret' = ParameterGrid(param_grid)
    /\ call' = [fn |-> "ParameterGrid", param_grid |-> param_grid]
    /\ UNCHANGED program

NextCalls ==
    \/ \E param_grid \in ParamGrids : CallParameterGrid(param_grid)
    \/ \E metrics \in MetricLists, prefix \in {"training", "validation"},
          X \in Datasets : CallEvaluate(metrics, prefix, X)
    \/ \E metrics \in MetricLists, T \in TrainingSets : CallCrossValidate(metrics, T)
    \/ \E cv, tr, va, pa \in SUBSET MergeKeys, vf \in {"None", "path"} :
          CallResults(cv, tr, va, pa, vf)

\* The functions are called beside a grid search that has not started.
InitCalls == Init /\ outDir /\ dirOrder = [i \in 1 .. MaxModels |-> i - 1]

SpecCalls == InitCalls /\ [][NextCalls]_vars

\* ----------------------------------------------------------------- claims

\* The files of the output directory.
files == <<modelFile, resultFile, aggregate>>

\* The call for grid point id starts in this step.
Enters(id) == jobPc[id] = "pending" /\ jobPc'[id] # "pending"

\* C1: whenever results_{id}.json exists, model_{id}.pkl exists, in every state
\* the job runner and the orchestrator can leave behind (a crash or an error at
\* any point included); and a job that has come to its result file has already
\* written its model file in this run.
C1_WriteOrder ==
    \A id \in Ids :
        /\ resultFile[id].exists => modelFile[id] # 0
        /\ jobPc[id] \in {"open", "write", "returned"} => modelFile[id] = run

\* C1 witness: the process died between a job's opening and writing of its
\* result file, and the result file it left has its model file beside it.
C1_Witness ==
    /\ mainPc = "idle"
    /\ mainResult = "crashed"
    /\ \E id \in Ids : resultFile[id] = Truncated /\ modelFile[id] = run

\* C2: a job that finds results_{id}.json when it starts returns as skipped in
\* that step, changes no file, and takes no further step (no parameters applied,
\* no fit, no scoring, nothing written) for as long as the run lasts.
C2_IdempotentSkip ==
    [][\A id \in Ids :
          /\ (Enters(id) /\ resultFile[id].exists) =>
                (jobPc'[id] = "skipped" /\ UNCHANGED files)
          /\ (jobPc[id] = "skipped" /\ mainPc' # "idle") =>
                jobPc'[id] = "skipped"]_vars

\* C2 witness: a job was skipped over the result and the model of an earlier run.
C2_Witness ==
    \E id \in Ids :
        /\ jobPc[id] = "skipped"
        /\ mainPc = "parallel"
        /\ resultFile[id] = [exists |-> TRUE, lines |-> <<ResultRecord(id, 1)>>]
        /\ modelFile[id] = 1
        /\ run = 2

\* C3: a run that finds a complete result file for every grid point trains
\* nothing (every job is skipped) and, having consolidated, leaves in results.json
\* exactly what those files held.
C3_RerunReproduces ==
    startComplete =>
        /\ \A id \in Ids : jobPc[id] \in {"pending", "skipped"}
        /\ mainPc = "rm" => (aggregate.exists /\ aggregate.lines = startLines)

\* C3 witness: such a run over a full grid has consolidated, every job skipped.
C3_Witness ==
    /\ startComplete
    /\ ctx.grid = MaxModels
    /\ mainPc = "rm"
    /\ \A id \in Ids : jobPc[id] = "skipped"
    /\ Len(aggregate.lines) = MaxModels

\* The lines of grid point id among the lines of results.json.
RecordsOf(lines, id) == { i \in DOMAIN lines : lines[i].model_id = id }

\* C4: a run that resumes an earlier run of the same grid (some job skipped, none
\* failing) ends with exactly one record per grid point in results.json and with
\* no per-job result file left.
C4_ResumeAggregate ==
    [][( /\ mainPc = "rm"
         /\ mainPc' = "idle"
         /\ mainResult' = "ok"
         /\ dirGrid = {ctx.grid}
         /\ \E id \in Grid(ctx) : jobPc[id] = "skipped" )
       => /\ \A id \in Grid(ctx) : Cardinality(RecordsOf(aggregate'.lines, id)) = 1
          /\ Len(aggregate'.lines) = ctx.grid
          /\ \A id \in Ids : ~resultFile'[id].exists]_vars

\* C5: a consolidation that follows an earlier one, no job having written a
\* result in between, leaves results.json as the earlier one left it.
C5_ConsolidationIdempotent ==
    [][(mainPc = "cat" /\ mainPc' = "rm" /\ aggregate.exists /\ ~newSincePass)
          => aggregate'.lines = aggregate.lines]_vars

\* C6: when a failure of a job reaches the caller of _main, every other grid
\* point's job has run to its end (none was left undispatched, none was ended by
\* the pool), for any n_jobs.
C6_FailureIsolated ==
    [][(mainPc = "parallel" /\ mainResult' = "JobFailure") =>
          \A id \in Grid(ctx) : jobPc[id] \in {"returned", "skipped", "raised"}]_vars

\* C7: while the consolidation runs (glob taken, results.json written, per-job
\* files removed), every dispatched job has returned (done or skipped): no job
\* is in flight and none is left to start.
C7_ConsolidationAfterJobs ==
    mainPc \in {"cat", "rm"} =>
        \A id \in Ids :
            IF id \in Grid(ctx) THEN jobPc[id] \in {"returned", "skipped"}
            ELSE jobPc[id] = "pending"

\* C7 witness: the consolidation has started after two workers ran the whole grid.
C7_Witness ==
    /\ mainPc = "cat"
    /\ ctx.n_jobs = 2
    /\ ctx.grid = MaxModels
    /\ \A id \in Ids : jobPc[id] = "returned"

\* C8: a job that stops (an error, or the end of the process) before it has
\* written its result leaves no results_{id}.json; and a job that starts with no
\* results_{id}.json starts from the application of the parameters, whatever else
\* an earlier run left (its model file included).
C8_RetryWholesale ==
    [][\A id \in Ids :
          /\ (jobPc[id] \in InFlight /\ jobPc'[id] \notin InFlight \cup {"returned"})
                => ~resultFile'[id].exists
          /\ (Enters(id) /\ ~resultFile[id].exists) => jobPc'[id] = "set_params"]_vars

\* C9: every results_{id}.json that exists and that no job is writing holds
\* exactly one line.
C9_OneLinePerResultFile ==
    \A id \in Ids :
        (resultFile[id].exists /\ jobPc[id] # "write") =>
            Len(resultFile[id].lines) = 1

\* The defects of the inputs that _main is to find before it dispatches.
ListedDefects ==
    {"search_file", "training_file", "validation_file", "target_training",
     "target_validation", "columns", "estimator", "param_grid"}

\* C10: an invocation whose inputs have one of these defects ends in an error
\* before any job is dispatched, and changes no model file, result file or
\* results.json.
C10_PreflightAborts ==
    [][( /\ mainPc = "idle"
         /\ run' = run + 1
         /\ inputDefects' \cap ListedDefects # {} ) =>
          /\ mainPc' = "idle"
          /\ mainResult' \notin {"ok", "running", "dry_run"}
          /\ jobPc' = NoJobs
          /\ UNCHANGED files]_vars

\* C10 witness: an invocation ended on the columns of the validation file, over a
\* directory that holds the result of an earlier run.
C10_Witness ==
    /\ mainPc = "idle"
    /\ mainResult = "ValueError_columns"
    /\ inputDefects = {"columns"}
    /\ run = 2
    /\ \E id \in Ids : Len(resultFile[id].lines) = 1

\* An invocation of _main starts in this step.
Invoked == mainPc = "idle" /\ run' = run + 1

\* The defects of the data and of the search definition, and the errors _main
\* raises for them.
SchemaDefects ==
    {"target_training", "target_validation", "columns", "estimator", "param_grid"}

SchemaErrors ==
    {"ValueError_target_training", "ValueError_target_validation",
     "ValueError_columns", "ValueError_estimator", "ValueError_param_grid"}

\* C11: an invocation whose data or search definition fails a check, on an
\* output directory that does not exist, ends with the error of that check, and
\* the output directory has not been created.
C11_NoDirectoryBeforeValidation ==
    [][(Invoked /\ ~outDir /\ inputDefects' \cap SchemaDefects # {}) =>
          (mainResult' \in SchemaErrors /\ ~outDir')]_vars

\* C12: in a run whose metric list has an unsupported name, a job that has
\* failed had made no call of estimator.fit (neither in the cross validation nor
\* in the training).
C12_MetricsBeforeTraining ==
    \A id \in Ids :
        (~ctx.metrics_supported /\ jobPc[id] = "raised") => id \notin fitted

\* The paths whose file changes in this step.
Written ==
    { <<"model", j>> : j \in { i \in Ids : modelFile'[i] # modelFile[i] } }
    \cup { <<"results", j>> : j \in { i \in Ids : resultFile'[i] # resultFile[i] } }
    \cup { <<"results.json", 0>> : j \in { i \in {0} : aggregate' # aggregate } }

\* The job of grid point id takes a step, the run going on.
JobStep(id) ==
    mainPc = "parallel" /\ mainPc' = "parallel" /\ jobPc'[id] # jobPc[id]

\* C14: under every interleaving of the jobs of a run, a step of the job of
\* model id writes no path but model_{id}.pkl and results_{id}.json, so that no
\* two jobs (their ids differ) ever write the same path.
C14_NoWriteContention ==
    [][\A id \in Ids :
          JobStep(id) => Written \subseteq {<<"model", id>>, <<"results", id>>}]_vars

\* C14 witness: two jobs of one run are writing their result files at once.
C14_Witness ==
    /\ ctx.n_jobs = 2
    /\ jobPc[0] = "write"
    /\ jobPc[1] = "write"
    /\ modelFile[0] = run
    /\ modelFile[1] = run

\* C15: an invocation with nothing wrong in its inputs, on an output directory
\* that does not exist, creates the directory and goes on with the run.
C15_CreatesOutputDirectory ==
    [][(Invoked /\ ~outDir /\ inputDefects' = {}) =>
          (outDir' /\ mainResult' = "running")]_vars

\* C20: a dry run, once the inputs are validated, has dispatched no job and
\* fitted nothing; its step logs one entry per grid point, with the model ids of
\* a run, changes no model file, result file or results.json, and ends _main
\* without the consolidation.
C20_DryRun ==
    [][mainPc = "dry_run" =>
          /\ jobPc = NoJobs /\ jobPc' = NoJobs
          /\ fitted = {} /\ fitted' = {}
          /\ UNCHANGED files
          /\ mainPc' = "idle"
          /\ mainResult' = "dry_run" =>
                (Len(logged') = ctx.grid /\ Range(logged') = Grid(ctx))]_vars

\* C20 witness: a dry run of a full grid has ended, over a directory that holds
\* a result file of an earlier run.
C20_Witness ==
    /\ mainPc = "idle"
    /\ mainResult = "dry_run"
    /\ Len(logged) = MaxModels
    /\ \E id \in Ids : resultFile[id].exists

\* C13: the grid gives the model ids 0..N-1 to the product of the declared value
\* lists, row-major over the parameters in the order the search file declares
\* them.
C13_GridRowMajorAsDeclared ==
    call.fn = "ParameterGrid" => ret = Product(call.param_grid)

\* The mappings merged into a result record, in the order of the merge.
Merged ==
    <<Provenance, call.cv_results, call.training_results, call.validation_results,
      call.params>>

\* The last of these mappings that has key k.
LastWith(k) ==
    CHOOSE i \in DOMAIN Merged :
        /\ k \in DOMAIN Merged[i]
        /\ \A j \in DOMAIN Merged : k \in DOMAIN Merged[j] => j <= i

\* C16: every key of a result record has the value of the last mapping that
\* holds it, in the order provenance, cross validation, training, validation,
\* parameters; except that with a validation file validation_file is its path.
C16_MergePrecedence ==
    call.fn = "results" =>
        /\ DOMAIN ret =
              UNION { DOMAIN Merged[i] : i \in DOMAIN Merged }
              \cup (IF call.validation_file = "path" THEN {"validation_file"} ELSE {})
        /\ \A k \in DOMAIN ret :
              ret[k] = IF k = "validation_file" /\ call.validation_file = "path"
                       THEN "path"
                       ELSE Merged[LastWith(k)][k]

\* C16 witness: the parameters and the training mapping share a key, and the
\* parameters hold validation_file while a validation file is given.
C16_Witness ==
    /\ call.fn = "results"
    /\ "training_accuracy" \in DOMAIN call.params \cap DOMAIN call.training_results
    /\ ret["training_accuracy"] = "params"
    /\ "validation_file" \in DOMAIN call.params
    /\ ret["validation_file"] = "path"

\* The fields of the mapping of one fold, for these metrics.
FoldFields(metrics) ==
    {<<"cross_validation_training", "time_total">>}
    \cup { <<p, m>> : p \in {"cross_validation_training", "cross_validation"},
                      m \in Range(metrics) \cup {"total_prediction_time",
                                                 "total_prediction_records"} }

\* C17: for every number of folds and every list of supported metrics the
\* cross validator returns, for every field f of a fold, f_all with one entry per
\* fold in fold order, f with the mean of that list, and no other key.
C17_CrossValidationLists ==
    (call.fn = "_cross_validate" /\ Range(call.metrics) \subseteq AVAILABLE_METRICS) =>
        LET K == Len(call.X_train.folds)
            F == FoldFields(call.metrics)
        IN  /\ ret.raised = "none"
            /\ DOMAIN ret.results = F \cup { Append(f, "_all") : f \in F }
            /\ \A f \in F :
                  /\ Len(ret.results[Append(f, "_all")]) = K
                  /\ \A i \in 1 .. K :
                        ret.results[Append(f, "_all")][i] =
                            Fold(call.metrics, call.X_train, i).results[f]
                  /\ ret.results[f].den = K
                  /\ ret.results[f].num = Sum(ret.results[Append(f, "_all")])

\* C18: with a name outside the supported set in its list, the evaluator raises
\* before it has scored any metric, and the error carries every unsupported name
\* of the list.
C18_InvalidMetricBeforeScoring ==
    (call.fn = "_evaluate_model" /\ ~(Range(call.metrics) \subseteq AVAILABLE_METRICS)) =>
        /\ ret.raised = "ValueError"
        /\ ret.scored = <<>>
        /\ ret.names = { m \in Range(call.metrics) : m \notin AVAILABLE_METRICS }

\* C18 witness: a list with a supported name first and an unsupported name after
\* it was rejected.
C18_Witness ==
    /\ call.fn = "_evaluate_model"
    /\ Len(call.metrics) > 1
    /\ call.metrics[1] \in AVAILABLE_METRICS
    /\ ret.raised = "ValueError"
    /\ ret.names # {}

\* C19: for every list of supported names and every prefix the evaluator returns
\* a mapping with the keys prefix_m of the metrics asked for, the prediction time
\* and the prediction records, the records being the rows of the dataset, after
\* one scoring call per metric asked for.
C19_EvaluatorMapping ==
    (call.fn = "_evaluate_model" /\ Range(call.metrics) \subseteq AVAILABLE_METRICS) =>
        /\ ret.raised = "none"
        /\ DOMAIN ret.results =
              { <<call.prefix, m>> : m \in Range(call.metrics) }
              \cup {<<call.prefix, "total_prediction_time">>,
                    <<call.prefix, "total_prediction_records">>}
        /\ ret.results[<<call.prefix, "total_prediction_records">>] = call.X.rows
        /\ ret.scored = call.metrics

\* C21: under every interleaving of the jobs of a run, no step of a job (the
\* cross validation, the training and the evaluations it calls included) changes
\* the grid search context, so that every job reads the context _main built
\* before the dispatch.
C21_ContextReadOnly ==
    [][(\E id \in Ids : JobStep(id)) => ctx' = ctx]_vars

\* C21 witness: of two jobs of one run that cross validates and has a validation
\* file, one has returned and the other is at its validation.
C21_Witness ==
    /\ mainPc = "parallel"
    /\ ctx.n_jobs = 2
    /\ ctx.cross_validation
    /\ Truthy(ctx.validation_file)
    /\ jobPc[0] = "returned"
    /\ jobPc[1] = "validate"

\* C22: an invocation whose search file has estimator and param_grid and leaves
\* out fit_params, scoring or both, nothing else being wrong and the output
\* directory being there, passes the validation and goes on to the dispatch.
C22_OptionalFieldsOmitted ==
    [][(Invoked /\ outDir /\ omitted' # {} /\ inputDefects' \subseteq {"scoring"}) =>
          (mainResult' = "running" /\ mainPc' = "parallel")]_vars

\* An invocation that leaves out fit_params alone goes on to the dispatch, with
\* no fit parameters in its context.
C22_FitParamsOmitted ==
    [][(Invoked /\ outDir /\ omitted' = {"fit_params"} /\ inputDefects' = {}) =>
          (mainResult' = "running" /\ mainPc' = "parallel" /\ ctx'.fit_params = "{}")]_vars

\* The job of grid point id wrote its result record in an earlier run: the record
\* is in its result file or, consolidated, in results.json.
CompletedBefore(id) ==
    \E r \in 1 .. (run - 1) :
        ResultRecord(id, r) \in Range(resultFile[id].lines) \cup Range(aggregate.lines)

\* C23: once the job of a model id has completed in a run, no later run on the
\* same grid fits that model again, rewrites its model file or rewrites its
\* result record, whether or not the earlier run went on to consolidate.
C23_NoRetraining ==
    [][\A id \in Ids :
          (CompletedBefore(id) /\ Cardinality(dirGrid) = 1) =>
              /\ id \in fitted' => id \in fitted
              /\ modelFile'[id] = modelFile[id]
              /\ resultFile'[id].exists => resultFile'[id] = resultFile[id]]_vars

\* As long as results_{id}.json of the earlier run is still there, no later run
\* on the same grid fits the model again or rewrites its files.
C23_WhileResultFileKept ==
    [][\A id \in Ids :
          (CompletedBefore(id) /\ Cardinality(dirGrid) = 1
              /\ Len(resultFile[id].lines) = 1) =>
              /\ id \in fitted' => id \in fitted
              /\ modelFile'[id] = modelFile[id]
              /\ resultFile'[id].exists => resultFile'[id] = resultFile[id]]_vars

\* The step that follows a step of a job that did not raise, in the order of the
\* claim: parameters, cross validation if configured, training, validation if
\* the context holds a validation split (X_validation is None without a
\* validation file and with validation_file = ""), model file, result file.
StepAfter(pc) ==
    CASE pc = "set_params" -> IF ctx.cross_validation THEN "cross_validate" ELSE "train"
      [] pc = "cross_validate" -> "train"
      [] pc = "train" -> IF Truthy(ctx.validation_file) THEN "validate" ELSE "dump"
      [] pc = "validate" -> "dump"
      [] pc = "dump" -> "open"
      [] pc = "open" -> "write"
      [] pc = "write" -> "returned"

\* C24: every step of a job that was not skipped and does not raise is followed
\* by the next step of this order, and the model file is written by the dump
\* step alone, from an estimator whose last fit was the training on the full
\* training split.
C24_StepOrder ==
    [][\A id \in Ids :
          /\ (JobStep(id) /\ jobPc[id] \in InFlight /\ jobPc'[id] # "raised")
                => jobPc'[id] = StepAfter(jobPc[id])
          /\ modelFile'[id] # modelFile[id]
                => (jobPc[id] = "dump" /\ lastFit[id] = "full")]_vars

\* In a run whose validation_file is absent or names a file, the steps of a job
\* follow this order and the estimator dumped was last fitted on the full
\* training split.
C24_StepOrderWithoutEmptyPath ==
    [][\A id \in Ids :
          ctx.validation_file # "" =>
              /\ (JobStep(id) /\ jobPc[id] \in InFlight /\ jobPc'[id] # "raised")
                    => jobPc'[id] = StepAfter(jobPc[id])
              /\ modelFile'[id] # modelFile[id]
                    => (jobPc[id] = "dump" /\ lastFit[id] = "full")]_vars

\* A job of the run has raised and _main has not ended yet.
JobRaised == mainPc = "parallel" /\ \E id \in Ids : jobPc[id] = "raised"

\* The grid points a run on the grid of ctx would skip, with these result files.
Skipped(rf) == { id \in Grid(ctx) : rf[id].exists }

\* C25: once a job of a run has raised, the run does not consolidate: no step
\* changes results.json or the result file of a job that completed, _main ends
\* in the failure without having taken the glob, and the result files it leaves
\* are those of the jobs that completed (in this run or before it), so that a
\* resume skips exactly those jobs.
C25_NoConsolidationAfterFailure ==
    [][JobRaised =>
          /\ aggregate' = aggregate
          /\ mainPc' \in {"parallel", "idle"}
          /\ \A id \in Ids :
                jobPc[id] \in {"returned", "skipped"} => resultFile'[id] = resultFile[id]
          /\ mainResult' = "JobFailure" =>
                Skipped(resultFile') =
                    { id \in Grid(ctx) :
                        /\ jobPc[id] \in {"returned", "skipped"}
                        /\ Len(resultFile[id].lines) = 1 }]_vars

\* Once a job of a run has raised, no step changes results.json or the result
\* file of a job that completed, and the consolidation is not started.
C25_FilesKeptAfterFailure ==
    [][JobRaised =>
          /\ aggregate' = aggregate
          /\ mainPc' \in {"parallel", "idle"}
          /\ \A id \in Ids :
                jobPc[id] \in {"returned", "skipped"} => resultFile'[id] = resultFile[id]]_vars

\* The context holds a validation split: X_validation and y_validation are taken
\* from the validation set `if validation_file`, and are None otherwise.
HasValidationSplit == Truthy(ctx.validation_file)

\* C26: for every validation_file argument (absent, empty, a path), a job whose
\* training succeeded goes on to the validation Evaluator if and only if the
\* context holds a validation split.
C26_ValidationIffSplit ==
    [][\A id \in Ids :
          (JobStep(id) /\ jobPc[id] = "train" /\ jobPc'[id] # "raised") =>
              (jobPc'[id] = "validate" <=> HasValidationSplit)]_vars

\* No job of a run with validation_file = "" comes to write its model file or
\* its result record; in every other run the validation Evaluator is run exactly
\* when the context holds a validation split.
C26_EmptyPathNeverWrites ==
    \A id \in Ids :
        /\ ctx.validation_file = "" => jobPc[id] \notin {"dump", "open", "write", "returned"}
        /\ (jobPc[id] = "validate" /\ ctx.validation_file # "") => HasValidationSplit

====
